---- MODULE Spec2Model ----
(***************************************************************************)
(* TranscodeDialog (src/transcoder/transcodedialog.cpp) as a state machine. *)
(*                                                                         *)
(* The dialog is single threaded: every slot runs to completion, so each   *)
(* slot is one action.  The Transcoder engine is not part of this file; it *)
(* appears as the calls the dialog makes to it (engine_calls) and as the   *)
(* notifications it delivers (JobComplete, AllJobsComplete, GetProgress).  *)
(***************************************************************************)
EXTENDS Integers, Sequences, FiniteSets

(***************************************************************************)
(* Bounds of the model.                                                    *)
(***************************************************************************)
\* longest file list the model lets Add/Import build
MaxFiles == 2
\* most jobs the engine holds un-notified at once (caps Start)
MaxJobs == 3
\* distinct folders the folder dialog can return in the dialog's own run
MaxMainDirs == 1
\* distinct folders the folder dialog can return in the destination runs
MaxDirs == 11
\* AddDestination calls followed in one destination run
MaxDestCalls == 3
\* log entries followed in one log run
MaxLog == 2

(***************************************************************************)
(* Program constants.                                                      *)
(***************************************************************************)
kMaxDestinationItems == 10

VARIABLES
  \* ui_->files: the queued input files, one row per file (Qt::UserRole data)
  files,
  \* ui_->format: the presets in the combo box and its current index (0-based)
  format_items, format_index,
  \* QSettings, group "Transcoder", key last_output_format ("" when absent)
  last_output_format,
  \* the three tallies
  queued_, finished_success_, finished_failed_,
  \* widget state written by the constructor and SetWorking
  start_visible, cancel_visible, close_visible,
  input_enabled, output_enabled, progress_group_visible,
  \* progress_timer_: running or not
  timer_active,
  \* ui_->progress_bar value and maximum, ui_->progress_text
  progress_value, progress_max, progress_text,
  \* ui_->destination: item data per entry (0 = no data), current index (0-based)
  destination, dest_index,
  \* the engine: jobs submitted and not yet reported complete, split into the
  \* jobs of the latest Start and the jobs of earlier ones
  jobs_current, jobs_stale,
  \* observation of the run: the slot that ran last, the calls it made to the
  \* engine, the entries it removed from the destination box
  last_event, engine_calls, last_removed,
  \* number of AddJob calls of the latest Start that made any
  submitted,
  \* a non-empty Start happened and no Cancel or AllJobsComplete since
  run_open,
  \* AddDestination calls so far (destination runs only)
  dest_calls,
  \* the folders addItem put into the destination box and that are still in
  \* it, in the order of the addItem calls
  dest_added,
  \* details_ui_->log: the entries of the log view, oldest first
  log

counters == <<queued_, finished_success_, finished_failed_>>
widgets == <<start_visible, cancel_visible, close_visible, input_enabled,
             output_enabled, progress_group_visible, timer_active>>
progress == <<progress_value, progress_max, progress_text>>
format == <<format_items, format_index>>
dest == <<destination, dest_index, last_removed, dest_calls, dest_added>>
engine == <<jobs_current, jobs_stale>>
vars == <<files, format, last_output_format, counters, widgets, progress,
          dest, engine, last_event, engine_calls, submitted, run_open, log>>

(***************************************************************************)
(* Helpers on sequences.                                                   *)
(***************************************************************************)
Range(s) == {s[i] : i \in DOMAIN s}

RECURSIVE SeqSum(_)
SeqSum(s) == IF s = <<>> THEN 0 ELSE Head(s) + SeqSum(Tail(s))

\* all sequences over S of length lo..hi
SeqsOf(S, lo, hi) == UNION {[1..n -> S] : n \in lo..hi}

Min(a, b) == IF a < b THEN a ELSE b
Max(a, b) == IF a > b THEN a ELSE b

(***************************************************************************)
(* Presets.  A preset is (name_, extension_, codec_mimetype_); name_ is    *)
(* the rank of the display name in QString order, which is all that        *)
(* ComparePresetsByName reads.                                             *)
(***************************************************************************)
\* Transcoder::GetAllPresets(), in the order the engine lists them: two
\* presets share the FLAC codec
GetAllPresets ==
  << [name_ |-> 1, extension_ |-> "flac", codec_mimetype_ |-> "audio/x-flac"],
     [name_ |-> 3, extension_ |-> "ogg", codec_mimetype_ |-> "audio/x-vorbis"],
     [name_ |-> 2, extension_ |-> "ogg", codec_mimetype_ |-> "audio/x-flac"] >>

ComparePresetsByName(left, right) == left.name_ < right.name_

\* std::sort(presets.begin(), presets.end(), ComparePresetsByName): names are
\* distinct, so the result is the one ordering by name
RECURSIVE InsertSorted(_, _)
InsertSorted(p, s) ==
  IF s = <<>> THEN <<p>>
  ELSE IF ComparePresetsByName(p, Head(s)) THEN <<p>> \o s
  ELSE <<Head(s)>> \o InsertSorted(p, Tail(s))

RECURSIVE SortPresets(_)
SortPresets(s) ==
  IF s = <<>> THEN <<>> ELSE InsertSorted(Head(s), SortPresets(Tail(s)))

\* ui_->format->itemData(i), i 0-based
FormatItemData(items, i) == items[i + 1]

\* s.value("last_output_format", "audio/x-vorbis"): "" stands for an absent key
SettingsValue(stored, default) == IF stored = "" THEN default ELSE stored

\* the loop without its break: the last matching index wins
RECURSIVE SelectStoredFormat_NoBreak(_, _, _, _)
SelectStoredFormat_NoBreak(items, stored, i, current) ==
  IF i >= Len(items) THEN current
  ELSE IF stored = items[i + 1].codec_mimetype_
    THEN SelectStoredFormat_NoBreak(items, stored, i + 1, i)
  ELSE SelectStoredFormat_NoBreak(items, stored, i + 1, current)

\* the constructor's loop over the combo box: the first index whose codec is
\* the stored one becomes current (then break); with no match the index stays
\* where addItem left it, at 0
RECURSIVE SelectStoredFormat(_, _, _, _)
SelectStoredFormat(items, stored, i, current) ==
  IF i >= Len(items) THEN current
  ELSE IF stored = FormatItemData(items, i).codec_mimetype_ THEN i
  ELSE SelectStoredFormat(items, stored, i + 1, current)

\* what the settings file can hold before the first run of this dialog: no
\* key, or a codec written by a build whose preset list had one more preset
StoredFormatsAtStartup == {"", "audio/x-removed"}

(***************************************************************************)
(* Inputs.                                                                 *)
(***************************************************************************)
\* file names the file dialogs and the directory scan can return
Filenames == {1, 2}

\* Transcoder::GetProgress() values, in thousandths: below 0, mid-way, complete
ProgressFloats == {-500, 500, 1000}

\* what GetProgress() can return while the engine holds n jobs: the values of
\* a map with at most n entries (values() lists them in key order; they are
\* only summed, so one order per collection of values is enough)
GetProgress(n) ==
  {s \in SeqsOf(ProgressFloats, 0, n) :
     \A i \in DOMAIN s : i = 1 \/ s[i - 1] <= s[i]}

\* the id of progress_timer_ while it runs, and the id of some other timer of
\* the QObject
ProgressTimerId == 1
OtherTimerId == 2

(***************************************************************************)
(* The engine's interface as the dialog uses it.                           *)
(***************************************************************************)
Call(op, input, preset, output) ==
  [op |-> op, input |-> input, preset |-> preset, output |-> output]

AddJobCall(input, preset, output) == Call("AddJob", input, preset.name_, output)
StartCall == Call("Start", 0, 0, <<0, 0, "">>)
CancelCall == Call("Cancel", 0, 0, <<0, 0, "">>)
GetProgressCall == Call("GetProgress", 0, 0, <<0, 0, "">>)

Event(name, arg) == [name |-> name, arg |-> arg]

\* a Cancel that does not reach the engine
CancelCalls_None == <<>>

\* the calls Cancel makes to the engine
CancelCalls == <<CancelCall>>

\* a timerEvent that takes every timer for the progress timer
IsProgressTimer_Any(id, active) == TRUE

\* e->timerId() == progress_timer_.timerId(); the id of a stopped
\* QBasicTimer is 0
IsProgressTimer(id, active) == id = (IF active THEN ProgressTimerId ELSE 0)

(***************************************************************************)
(* Pure parts of the slots.                                                *)
(***************************************************************************)
\* Text is a sequence of tokens; "%1" and "%2" are QString place markers.
\* The engine's log messages, by number: a plain one and one that holds a
\* place marker itself
Messages == {1, 2}

MessageText(message) ==
  IF message = 1 THEN <<"Transcoding">> ELSE <<"100", "%1", "done">>

\* QDateTime::currentDateTime().toString(Qt::TextDate) at two moments
Dates == {<<"Sun Nov 1 20:00:00 2026">>, <<"Sun Nov 1 20:00:01 2026">>}

\* the markers replaced one after the other, the message first: the date
\* then lands in every "%1" left, those inside the message too
ArgBoth_MessageFirst(template, a1, a2) ==
  LET RECURSIVE ReplaceAll(_, _, _)
      ReplaceAll(text, marker, by) ==
        IF text = <<>> THEN <<>>
        ELSE (IF Head(text) = marker THEN by ELSE <<Head(text)>>)
               \o ReplaceAll(Tail(text), marker, by)
  IN  ReplaceAll(ReplaceAll(template, "%2", a2), "%1", a1)

\* QString::arg(a1, a2): both markers are replaced in one pass over the
\* template; the text put in is not scanned again
RECURSIVE ArgBoth(_, _, _)
ArgBoth(template, a1, a2) ==
  IF template = <<>> THEN <<>>
  ELSE (IF Head(template) = "%1" THEN a1
        ELSE IF Head(template) = "%2" THEN a2
        ELSE <<Head(template)>>)
         \o ArgBoth(Tail(template), a1, a2)

\* QString("%1: %2").arg(date, message)
LogText(date, text) == ArgBoth(<<"%1", ": ", "%2">>, date, text)

\* QFileInfo(path).isDir(): the box's own entry has no data (empty path)
IsDir(path) == path # 0

\* GetOutputFileName: <<directory, base name, extension>>; directory 0 is the
\* input file's own directory ("keep the original path")
GetOutputFileName(input, preset, box, index) ==
  LET path == box[index + 1]
  IN << (IF IsDir(path) THEN path ELSE 0), input, preset.extension_ >>

\* a Start without its early return
NothingToProcess_Never(count) == FALSE

\* if (count == 0) return;
NothingToProcess(count) == count = 0

\* a loop that starts at row 1 instead of row 0
StartJobs_SkipFirst(rows, preset, box, index) ==
  [i \in 1..(Len(rows) - 1) |->
     AddJobCall(rows[i + 1], preset,
                GetOutputFileName(rows[i + 1], preset, box, index))]

\* the loop of Start: one AddJob per row, rows 0..count-1 in order
StartJobs(rows, preset, box, index) ==
  [i \in 1..Len(rows) |->
     AddJobCall(rows[i], preset, GetOutputFileName(rows[i], preset, box, index))]

\* the calls Start makes to the engine: the AddJob loop, then Start()
StartCalls(rows, preset, box, index) ==
  StartJobs(rows, preset, box, index) \o <<StartCall>>

\* int(value * 100) for a value in thousandths: C++ truncates toward zero
IntOfPercent(v) == IF v >= 0 THEN v \div 10 ELSE -((-v) \div 10)

\* qBound(min, value, max)
qBound(min, value, max) == Max(min, Min(value, max))

\* the value UpdateProgress computes from the tallies and GetProgress()
ProgressOf(success, failed, current_jobs) ==
  (success + failed) * 100
    + SeqSum([i \in DOMAIN current_jobs |->
                qBound(0, IntOfPercent(current_jobs[i]), 99)])

\* QProgressBar::setValue: a value outside [0, maximum] is ignored
SetBarValue(value, current, maximum) ==
  IF value > maximum \/ value < 0 THEN current ELSE value

\* UpdateStatusText: one section per non-zero tally, in this order
StatusText(queued, success, failed) ==
  (IF queued # 0 THEN << <<"remaining", queued>> >> ELSE <<>>)
    \o (IF success # 0 THEN << <<"finished", success>> >> ELSE <<>>)
    \o (IF failed # 0 THEN << <<"failed", failed>> >> ELSE <<>>)

\* a JobComplete that forgets queued_--
TallyJob_NoDecrement(queued, success, failed, ok) ==
  << queued,
     IF ok THEN success + 1 ELSE success,
     IF ok THEN failed ELSE failed + 1 >>

\* a JobComplete that tests !success
TallyJob_SwapOutcome(queued, success, failed, ok) ==
  << queued - 1,
     IF ok THEN success ELSE success + 1,
     IF ok THEN failed + 1 ELSE failed >>

\* JobComplete's tally update: <<queued_, finished_success_, finished_failed_>>
TallyJob(queued, success, failed, ok) ==
  << queued - 1,
     IF ok THEN success + 1 ELSE success,
     IF ok THEN failed ELSE failed + 1 >>

\* a SetWorking that starts the timer and never stops it
SetWorking_TimerNeverStops(working) ==
  /\ start_visible' = ~working
  /\ cancel_visible' = working
  /\ close_visible' = ~working
  /\ input_enabled' = ~working
  /\ output_enabled' = ~working
  /\ progress_group_visible' = TRUE
  /\ timer_active' = (working \/ timer_active)

\* a SetWorking that leaves the input group enabled
SetWorking_InputStaysEnabled(working) ==
  /\ start_visible' = ~working
  /\ cancel_visible' = working
  /\ close_visible' = ~working
  /\ input_enabled' = TRUE
  /\ output_enabled' = ~working
  /\ progress_group_visible' = TRUE
  /\ timer_active' = working

\* SetWorking(working)
SetWorking(working) ==
  /\ start_visible' = ~working
  /\ cancel_visible' = working
  /\ close_visible' = ~working
  /\ input_enabled' = ~working
  /\ output_enabled' = ~working
  /\ progress_group_visible' = TRUE
  /\ timer_active' = working

(***************************************************************************)
(* The destination box (QComboBox).                                        *)
(***************************************************************************)
\* QComboBox::removeItem(i), i 0-based: out of range does nothing; the
\* current index follows its item, or moves to the item that took its place
RemoveItem(box, i) ==
  IF i < 0 \/ i >= Len(box.items) THEN box
  ELSE LET left == [k \in 1..(Len(box.items) - 1) |->
                      IF k <= i THEN box.items[k] ELSE box.items[k + 1]]
       IN [items |-> left,
           current |-> IF box.current > i THEN box.current - 1
                       ELSE IF box.current = i
                         THEN Min(Len(left) - 1, box.current)
                       ELSE box.current,
           removed |-> Append(box.removed, box.items[i + 1])]

\* a loop condition that lets the box reach one entry more
BoxIsFull_OffByOne(count) == count > kMaxDestinationItems

\* the loop condition of AddDestination
BoxIsFull(count) == count >= kMaxDestinationItems

\* a loop that removes the entry at index 0
RemoveWhileFull_IndexZero(box) ==
  LET RECURSIVE Loop(_)
      Loop(b) == IF BoxIsFull(Len(b.items)) THEN Loop(RemoveItem(b, 0)) ELSE b
  IN  Loop(box)

\* while (count() >= kMaxDestinationItems) removeItem(1)
RECURSIVE RemoveWhileFull(_)
RemoveWhileFull(box) ==
  IF BoxIsFull(Len(box.items)) THEN RemoveWhileFull(RemoveItem(box, 1)) ELSE box

\* QComboBox::findData(data): the first index holding it, or -1
RECURSIVE FindFrom(_, _, _)
FindFrom(items, data, i) ==
  IF i >= Len(items) THEN -1
  ELSE IF items[i + 1] = data THEN i
  ELSE FindFrom(items, data, i + 1)

\* a search that never finds the folder
findData_Miss(items, data) == -1

findData(items, data) == FindFrom(items, data, 0)

\* the body of AddDestination for a chosen folder (dir 0: the dialog was
\* cancelled and returned an empty string)
AddDestinationResult(items, current, dir) ==
  IF dir = 0 THEN [items |-> items, current |-> current, removed |-> <<>>,
                   added |-> FALSE]
  ELSE LET box == RemoveWhileFull(
                    [items |-> items, current |-> current, removed |-> <<>>])
           duplicate_index == findData(box.items, dir)
       IN IF duplicate_index = -1
            THEN [items |-> Append(box.items, dir),
                  current |-> Len(box.items),
                  removed |-> box.removed,
                  added |-> TRUE]
            ELSE [items |-> box.items,
                  current |-> duplicate_index,
                  removed |-> box.removed,
                  added |-> FALSE]

(***************************************************************************)
(* Construction.                                                           *)
(***************************************************************************)
\* the combo box after the constructor filled it and applied the settings
CtorFormatItems == SortPresets(GetAllPresets)

CtorFormatIndex(stored) ==
  SelectStoredFormat(CtorFormatItems,
                     SettingsValue(stored, "audio/x-vorbis"), 0, 0)

\* everything the constructor sets except the destination box
InitDialog ==
  /\ files = <<>>
  /\ last_output_format \in StoredFormatsAtStartup
  /\ format_items = CtorFormatItems
  /\ format_index = CtorFormatIndex(last_output_format)
  /\ queued_ = 0
  /\ finished_success_ = 0
  /\ finished_failed_ = 0
  /\ start_visible = TRUE
  /\ cancel_visible = FALSE
  /\ close_visible = TRUE
  /\ input_enabled = TRUE
  /\ output_enabled = TRUE
  /\ progress_group_visible = FALSE
  /\ timer_active = FALSE
  /\ progress_value = 0
  /\ progress_max = 100
  /\ progress_text = <<>>
  /\ jobs_current = 0
  /\ jobs_stale = 0
  /\ last_event = Event("Construct", 0)
  /\ engine_calls = <<>>
  /\ last_removed = <<>>
  /\ submitted = 0
  /\ run_open = FALSE
  /\ dest_calls = 0
  /\ log = <<>>

\* the destination box as the form defines it: one entry without data
Init ==
  /\ InitDialog
  /\ destination = <<0>>
  /\ dest_index = 0
  /\ dest_added = <<>>

\* a new dialog (with its own engine) on the settings the last one left
Construct ==
  /\ files' = <<>>
  /\ format_items' = CtorFormatItems
  /\ format_index' = CtorFormatIndex(last_output_format)
  /\ queued_' = 0
  /\ finished_success_' = 0
  /\ finished_failed_' = 0
  /\ start_visible' = TRUE
  /\ cancel_visible' = FALSE
  /\ close_visible' = TRUE
  /\ input_enabled' = TRUE
  /\ output_enabled' = TRUE
  /\ progress_group_visible' = FALSE
  /\ timer_active' = FALSE
  /\ progress_value' = 0
  /\ progress_max' = 100
  /\ progress_text' = <<>>
  /\ jobs_current' = 0
  /\ jobs_stale' = 0
  /\ last_event' = Event("Construct", 0)
  /\ engine_calls' = <<>>
  /\ last_removed' = <<>>
  /\ dest_added' = <<>>
  /\ submitted' = 0
  /\ run_open' = FALSE
  /\ destination' = <<0>>
  /\ dest_index' = 0
  /\ log' = <<>>
  /\ UNCHANGED <<last_output_format, dest_calls>>

(***************************************************************************)
(* The slots.  A button's slot runs only while the button is visible and   *)
(* its group enabled: add, import, remove and the file list sit in         *)
(* input_group; format, options, destination and select in output_group.   *)
(***************************************************************************)
Start ==
  /\ start_visible
  /\ LET count == Len(files)
         preset == FormatItemData(format_items, format_index)
         calls == StartCalls(files, preset, destination, dest_index)
     IN IF NothingToProcess(count)
          THEN /\ engine_calls' = <<>>
               /\ UNCHANGED <<files, format, last_output_format, counters,
                              widgets, progress, dest, engine, submitted,
                              run_open>>
          ELSE /\ jobs_current + jobs_stale + count <= MaxJobs
               /\ SetWorking(TRUE)
               /\ engine_calls' = calls
               /\ progress_max' = count * 100
               /\ progress_value' = SetBarValue(0, progress_value, progress_max)
               /\ queued_' = count
               /\ finished_success_' = 0
               /\ finished_failed_' = 0
               /\ progress_text' = StatusText(count, 0, 0)
               /\ jobs_stale' = jobs_stale + jobs_current
               /\ jobs_current' = Len(SelectSeq(calls, LAMBDA c : c.op = "AddJob"))
               /\ submitted' = Len(SelectSeq(calls, LAMBDA c : c.op = "AddJob"))
               /\ last_output_format' = preset.codec_mimetype_
               /\ run_open' = TRUE
               /\ UNCHANGED <<files, format, dest>>
  /\ last_event' = Event("Start", Len(files))
  /\ UNCHANGED log

\* the engine may have stopped and dropped any of its jobs; the others still
\* have a notification on the way
Cancel ==
  /\ cancel_visible
  /\ engine_calls' = CancelCalls
  /\ SetWorking(FALSE)
  /\ jobs_current' \in 0..jobs_current
  /\ jobs_stale' \in 0..jobs_stale
  /\ run_open' = FALSE
  /\ last_event' = Event("Cancel", 0)
  /\ UNCHANGED <<files, format, last_output_format, counters, progress, dest,
                 submitted>>
  /\ UNCHANGED log

\* JobComplete(input, output, success) for one job the engine still holds;
\* current_jobs is what GetProgress() returns to UpdateProgress
JobComplete(success, of_latest_start, current_jobs) ==
  /\ IF of_latest_start
       THEN /\ jobs_current > 0
            /\ jobs_current' = jobs_current - 1
            /\ jobs_stale' = jobs_stale
       ELSE /\ jobs_stale > 0
            /\ jobs_stale' = jobs_stale - 1
            /\ jobs_current' = jobs_current
  /\ LET t == TallyJob(queued_, finished_success_, finished_failed_, success)
     IN /\ queued_' = t[1]
        /\ finished_success_' = t[2]
        /\ finished_failed_' = t[3]
        /\ progress_text' = StatusText(t[1], t[2], t[3])
        /\ progress_value' =
             SetBarValue(ProgressOf(t[2], t[3], current_jobs),
                         progress_value, progress_max)
  /\ engine_calls' = <<GetProgressCall>>
  /\ last_event' = Event("JobComplete", IF success THEN 1 ELSE 0)
  /\ UNCHANGED <<files, format, last_output_format, widgets, progress_max,
                 dest, submitted, run_open>>
  /\ UNCHANGED log

\* an AllJobsComplete that leaves the dialog as it is
AllJobsComplete_Ignored ==
  /\ submitted > 0
  /\ engine_calls' = <<>>
  /\ last_event' = Event("AllJobsComplete", 0)
  /\ UNCHANGED <<files, format, last_output_format, counters, widgets,
                 progress, dest, engine, submitted, run_open, log>>

\* the engine's terminal notification, once it has been started
AllJobsComplete ==
  /\ submitted > 0
  /\ SetWorking(FALSE)
  /\ engine_calls' = <<>>
  /\ run_open' = FALSE
  /\ last_event' = Event("AllJobsComplete", 0)
  /\ UNCHANGED <<files, format, last_output_format, counters, progress, dest,
                 engine, submitted>>
  /\ UNCHANGED log

\* timerEvent(e): a timer ticks only while it runs
timerEvent(id, current_jobs) ==
  /\ id = ProgressTimerId => timer_active
  /\ IF IsProgressTimer(id, timer_active)
       THEN /\ progress_value' =
                 SetBarValue(ProgressOf(finished_success_, finished_failed_,
                                        current_jobs),
                             progress_value, progress_max)
            /\ engine_calls' = <<GetProgressCall>>
       ELSE /\ current_jobs = <<>>
            /\ engine_calls' = <<>>
            /\ UNCHANGED progress_value
  /\ last_event' = Event("timerEvent", id)
  /\ UNCHANGED <<files, format, last_output_format, counters, widgets,
                 progress_max, progress_text, dest, engine, submitted,
                 run_open>>
  /\ UNCHANGED log

\* a SetFilenames that empties the list first
SetFilenames_Replace(list, filenames) == filenames

\* SetFilenames: one new row per file name, appended
SetFilenames(list, filenames) == list \o filenames

\* Add: an empty selection (cancelled dialog) returns at once
Add(filenames) ==
  /\ input_enabled
  /\ Len(files) + Len(filenames) <= MaxFiles
  /\ files' = IF filenames = <<>> THEN files ELSE SetFilenames(files, filenames)
  /\ engine_calls' = <<>>
  /\ last_event' = Event("Add", 0)
  /\ UNCHANGED <<format, last_output_format, counters, widgets, progress,
                 dest, engine, submitted, run_open>>
  /\ UNCHANGED log

\* Import: the files found under the chosen directory (none for a cancelled
\* dialog or a directory without audio files)
Import(filenames) ==
  /\ input_enabled
  /\ Len(files) + Len(filenames) <= MaxFiles
  /\ files' = SetFilenames(files, filenames)
  /\ engine_calls' = <<>>
  /\ last_event' = Event("Import", 0)
  /\ UNCHANGED <<format, last_output_format, counters, widgets, progress,
                 dest, engine, submitted, run_open>>
  /\ UNCHANGED log

\* the rows left when the selected ones are deleted
RECURSIVE RemoveRows(_, _, _)
RemoveRows(list, selected, i) ==
  IF i > Len(list) THEN <<>>
  ELSE (IF i \in selected THEN <<>> ELSE <<list[i]>>)
         \o RemoveRows(list, selected, i + 1)

\* selectedItems() as a number: bit i - 1 is set when row i is selected
RECURSIVE SelectionMask(_)
SelectionMask(selected) ==
  IF selected = {} THEN 0
  ELSE LET i == CHOOSE r \in selected : TRUE
       IN 2 ^ (i - 1) + SelectionMask(selected \ {i})

\* Remove: qDeleteAll(selectedItems()), selected a set of row numbers
Remove(selected) ==
  /\ input_enabled
  /\ files' = RemoveRows(files, selected, 1)
  /\ engine_calls' = <<>>
  /\ last_event' = Event("Remove", SelectionMask(selected))
  /\ UNCHANGED <<format, last_output_format, counters, widgets, progress,
                 dest, engine, submitted, run_open>>
  /\ UNCHANGED log

\* LogLine(message): one paragraph, "<date>: <message>", appended to the log
LogLine(message, date) ==
  /\ log' = Append(log, LogText(date, MessageText(message)))
  /\ engine_calls' = <<>>
  /\ last_event' = Event("LogLine", message)
  /\ UNCHANGED <<files, format, last_output_format, counters, widgets,
                 progress, dest, engine, submitted, run_open>>

\* the Clear button of the details dialog: QPlainTextEdit::clear()
ClearLog ==
  /\ log # <<>>
  /\ log' = <<>>
  /\ engine_calls' = <<>>
  /\ last_event' = Event("ClearLog", 0)
  /\ UNCHANGED <<files, format, last_output_format, counters, widgets,
                 progress, dest, engine, submitted, run_open>>

\* the user picks another entry of the format combo box
SelectFormat(i) ==
  /\ output_enabled
  /\ i # format_index
  /\ format_index' = i
  /\ engine_calls' = <<>>
  /\ last_event' = Event("SelectFormat", 0)
  /\ UNCHANGED <<files, format_items, last_output_format, counters, widgets,
                 progress, dest, engine, submitted, run_open>>
  /\ UNCHANGED log

\* AddDestination, with the folder the folder dialog returned (0: cancelled)
AddDestination(dir) ==
  /\ output_enabled
  /\ LET r == AddDestinationResult(destination, dest_index, dir)
     IN /\ destination' = r.items
        /\ dest_index' = r.current
        /\ last_removed' = r.removed
        /\ dest_added' =
             SelectSeq(dest_added, LAMBDA d : d \notin Range(r.removed))
               \o (IF r.added THEN <<dir>> ELSE <<>>)
  /\ engine_calls' = <<>>
  /\ last_event' = Event("AddDestination", dir)
  /\ UNCHANGED <<files, format, last_output_format, counters, widgets,
                 progress, engine, submitted, run_open>>
  /\ UNCHANGED log

(***************************************************************************)
(* The dialog with its engine.                                             *)
(***************************************************************************)
Next ==
  \/ Start
  \/ Cancel
  \/ \E success \in BOOLEAN, of_latest_start \in BOOLEAN :
       \E current_jobs \in GetProgress(jobs_current + jobs_stale - 1) :
         JobComplete(success, of_latest_start, current_jobs)
  \/ AllJobsComplete
  \/ \E id \in {ProgressTimerId, OtherTimerId} :
       \E current_jobs \in GetProgress(jobs_current + jobs_stale) :
         timerEvent(id, current_jobs)
  \/ \E filenames \in SeqsOf(Filenames, 0, MaxFiles) : Add(filenames)
  \/ \E filenames \in SeqsOf(Filenames, 0, MaxFiles) : Import(filenames)
  \/ \E selected \in SUBSET (1..Len(files)) : Remove(selected)
  \/ Construct

Spec == Init /\ [][Next]_vars

(***************************************************************************)
(* The dialog with an engine that owes it the terminal notification: once  *)
(* started, the engine does not withhold AllJobsComplete for ever.         *)
(***************************************************************************)
SpecLive == Spec /\ WF_vars(AllJobsComplete)

(***************************************************************************)
(* The dialog with an engine that keeps to the order of a run: progress is *)
(* reported only for jobs of the latest Start that have not completed yet, *)
(* and AllJobsComplete comes for the latest Start, after the JobComplete   *)
(* of each of its jobs.  The completion of a job of an earlier, cancelled  *)
(* Start may still arrive.                                                 *)
(***************************************************************************)
NextOrderly ==
  \/ Start
  \/ Cancel
  \/ \E success \in BOOLEAN, of_latest_start \in BOOLEAN :
       \E current_jobs \in
            GetProgress(jobs_current - (IF of_latest_start THEN 1 ELSE 0)) :
         JobComplete(success, of_latest_start, current_jobs)
  \/ (run_open /\ jobs_current = 0 /\ AllJobsComplete)
  \/ \E id \in {ProgressTimerId, OtherTimerId} :
       \E current_jobs \in GetProgress(jobs_current) :
         timerEvent(id, current_jobs)
  \/ \E filenames \in SeqsOf(Filenames, 0, MaxFiles) : Add(filenames)
  \/ \E filenames \in SeqsOf(Filenames, 0, MaxFiles) : Import(filenames)
  \/ \E selected \in SUBSET (1..Len(files)) : Remove(selected)
  \/ Construct

SpecOrderly == Init /\ [][NextOrderly]_vars

(***************************************************************************)
(* The run of the dialog with the engine's log lines and the Clear button  *)
(* of the details dialog; MaxLog caps the entries followed.  The log does  *)
(* not depend on the file names or on the progress figures, so files are   *)
(* added one at a time and no job is in progress when one completes.       *)
(***************************************************************************)
NextLog ==
  \/ Start
  \/ Cancel
  \/ \E success \in BOOLEAN, of_latest_start \in BOOLEAN :
       JobComplete(success, of_latest_start, <<>>)
  \/ AllJobsComplete
  \/ Add(<<1>>)
  \/ \E message \in Messages, date \in Dates :
       Len(log) < MaxLog /\ LogLine(message, date)
  \/ ClearLog

SpecLog == Init /\ [][NextLog]_vars

(***************************************************************************)
(* The user's side of the dialog: the slots of the form, with the output   *)
(* format and the destination folder chosen between runs, and a run ended  *)
(* by Cancel or by the engine's AllJobsComplete.  The per-job              *)
(* notifications and the timer are in Spec; they leave the form, the       *)
(* format and the settings alone.                                          *)
(***************************************************************************)
NextUser ==
  \/ Start
  \/ Cancel
  \/ AllJobsComplete
  \/ \E filenames \in SeqsOf(Filenames, 0, MaxFiles) : Add(filenames)
  \/ \E filenames \in SeqsOf(Filenames, 0, MaxFiles) : Import(filenames)
  \/ \E selected \in SUBSET (1..Len(files)) : Remove(selected)
  \/ \E i \in 0..(Len(format_items) - 1) : SelectFormat(i)
  \/ \E dir \in 0..MaxMainDirs : AddDestination(dir) /\ UNCHANGED dest_calls
  \/ Construct

SpecUser == Init /\ [][NextUser]_vars

(***************************************************************************)
(* The destination box on its own: the box as k earlier AddDestination     *)
(* calls with k different folders leave it (every box the dialog can hold  *)
(* is one of these up to the names of the folders), then MaxDestCalls      *)
(* calls with any folders.                                                 *)
(***************************************************************************)
InitDest ==
  /\ InitDialog
  /\ \E k \in 0..(kMaxDestinationItems - 1) :
       /\ destination = <<0>> \o [i \in 1..k |-> i]
       /\ dest_index = k
       /\ dest_added = [i \in 1..k |-> i]

NextDest ==
  \E dir \in 0..MaxDirs :
    /\ dest_calls < MaxDestCalls
    /\ AddDestination(dir)
    /\ dest_calls' = dest_calls + 1

SpecDest == InitDest /\ [][NextDest]_vars

(***************************************************************************)
(* Properties.                                                             *)
(***************************************************************************)
Working ==
  /\ ~start_visible
  /\ cancel_visible
  /\ ~input_enabled
  /\ ~output_enabled

NotWorking ==
  /\ start_visible
  /\ ~cancel_visible
  /\ input_enabled
  /\ output_enabled

\* C1: in every reachable state the three tallies add up to the number of
\* jobs submitted by the latest Start with a non-empty file list, and to 0
\* before the first such Start
C1_TalliesSumToSubmitted ==
  queued_ + finished_success_ + finished_failed_ = submitted

\* a notification of an earlier run has arrived after a later Start: queued_
\* is below zero and the sum still stands
C1_Witness ==
  /\ last_event.name = "JobComplete"
  /\ submitted > 0
  /\ queued_ < 0

\* C2: the three tallies are never negative, whatever the order of Start,
\* Cancel, JobComplete and AllJobsComplete, late notifications included
C2_TalliesNonNegative ==
  /\ queued_ >= 0
  /\ finished_success_ >= 0
  /\ finished_failed_ >= 0

\* C3: the destination box never holds more than kMaxDestinationItems
\* entries
C3_DestinationCap == Len(destination) <= kMaxDestinationItems

\* AddDestination has removed an entry of a full box and added the new folder
C3_Witness ==
  /\ last_event.name = "AddDestination"
  /\ last_removed # <<>>
  /\ Len(destination) = kMaxDestinationItems

\* C4: no two entries of the destination box carry the same folder
C4_NoDuplicateDestination ==
  \A i, j \in DOMAIN destination :
    i # j => destination[i] # destination[j]

\* a folder that was already in the box has been chosen again: it is the
\* current entry, and not the last one
C4_Witness ==
  /\ last_event.name = "AddDestination"
  /\ last_event.arg # 0
  /\ dest_index + 1 < Len(destination)
  /\ destination[dest_index + 1] = last_event.arg

\* C5: a JobComplete notification takes 1 from queued_ and adds 1 to
\* finished_success_ (success) or to finished_failed_ (failure), and leaves
\* the other of the two, the widgets' working state and the file list as
\* they were
C5_JobCompleteTallies ==
  [][last_event'.name = "JobComplete" =>
       /\ queued_' = queued_ - 1
       /\ IF last_event'.arg = 1
            THEN /\ finished_success_' = finished_success_ + 1
                 /\ finished_failed_' = finished_failed_
            ELSE /\ finished_failed_' = finished_failed_ + 1
                 /\ finished_success_' = finished_success_
       /\ UNCHANGED <<widgets, files>>]_vars

\* a success and a failure have both been tallied, the failure last
C5_Witness ==
  /\ last_event = Event("JobComplete", 0)
  /\ finished_success_ = 1
  /\ finished_failed_ = 1

\* C6: Cancel forwards exactly one cancel request to the engine, leaves the
\* dialog not working, and changes none of the three tallies
C6_CancelForwardsOnce ==
  [][last_event'.name = "Cancel" =>
       /\ engine_calls' = <<CancelCall>>
       /\ NotWorking'
       /\ ~timer_active'
       /\ UNCHANGED counters]_vars

\* a run cancelled with a job tallied and a job still counted as remaining
C6_Witness ==
  /\ last_event.name = "Cancel"
  /\ queued_ = 1
  /\ finished_success_ + finished_failed_ = 1

\* C7 as stated: the engine's progress is queried only on a tick of the
\* progress timer
C7_QueryOnlyOnTimerTick ==
  GetProgressCall \in Range(engine_calls) =>
    last_event = Event("timerEvent", ProgressTimerId)

\* C7 as amended: the engine's progress is queried only on a tick of the
\* progress timer or on a JobComplete notification
C7_QueryOnTickOrJobComplete ==
  GetProgressCall \in Range(engine_calls) =>
    \/ last_event = Event("timerEvent", ProgressTimerId)
    \/ last_event.name = "JobComplete"

\* a tick of the progress timer has queried the engine and moved the bar
C7_Witness ==
  /\ last_event = Event("timerEvent", ProgressTimerId)
  /\ engine_calls = <<GetProgressCall>>
  /\ progress_value > 0

\* C8: a Start with n > 0 files makes n AddJob calls, the i-th for the i-th
\* file of the list, and then one Start call; JobComplete, Cancel and
\* AllJobsComplete submit and start nothing
C8_SubmitsEachFileOnce ==
  /\ (last_event.name = "Start" /\ last_event.arg > 0) =>
       /\ Len(engine_calls) = Len(files) + 1
       /\ \A i \in 1..Len(files) :
            /\ engine_calls[i].op = "AddJob"
            /\ engine_calls[i].input = files[i]
       /\ engine_calls[Len(files) + 1] = StartCall
  /\ last_event.name \in {"JobComplete", "Cancel", "AllJobsComplete"} =>
       \A c \in Range(engine_calls) : c.op \notin {"AddJob", "Start"}

\* a Start has submitted two different files, the second name first
C8_Witness ==
  /\ last_event = Event("Start", 2)
  /\ files = <<2, 1>>
  /\ Len(engine_calls) = 3

\* C9: after a Start with a non-empty list the stored last_output_format is
\* the codec of the selected preset; a dialog constructed on a stored value
\* selects the first preset in name order with that codec, and index 0 when
\* no preset has it
C9_FormatRoundTrip ==
  /\ (last_event.name = "Start" /\ last_event.arg > 0) =>
       last_output_format =
         FormatItemData(format_items, format_index).codec_mimetype_
  /\ (last_event.name = "Construct" /\ last_output_format # "") =>
       LET matches == {i \in 0..(Len(format_items) - 1) :
                         FormatItemData(format_items, i).codec_mimetype_
                           = last_output_format}
       IN IF matches = {} THEN format_index = 0
          ELSE /\ format_index \in matches
               /\ \A j \in matches : format_index <= j

\* a dialog constructed on the FLAC codec, which only a Start can have
\* stored and which two presets carry
C9_Witness ==
  /\ last_event.name = "Construct"
  /\ last_output_format = "audio/x-flac"
  /\ format_index = 0

\* C10: exactly one of the start and cancel buttons is visible; the cancel
\* button is visible and the input and output groups are disabled exactly
\* from a non-empty Start to the next Cancel or AllJobsComplete; in between
\* no Start runs and the file list does not change
C10_StartCancelGate ==
  /\ [](/\ start_visible # cancel_visible
        /\ cancel_visible <=> run_open
        /\ input_enabled <=> ~run_open
        /\ output_enabled <=> ~run_open)
  /\ [][(run_open /\ last_event'.name # "Construct") =>
          /\ last_event'.name # "Start"
          /\ files' = files]_vars

\* the dialog in the middle of a run, a job already tallied
C10_Witness ==
  /\ run_open
  /\ Working
  /\ last_event.name = "JobComplete"
  /\ queued_ > 0

\* C11: the progress timer runs exactly while the dialog is working: from a
\* non-empty Start to the next Cancel or AllJobsComplete, and not after
\* construction or a Start with an empty list
C11_TimerRunsWhileWorking ==
  /\ timer_active <=> run_open
  /\ timer_active <=> Working
  /\ last_event.name = "Construct" => ~timer_active
  /\ last_event = Event("Start", 0) => ~timer_active

\* the timer stopped by AllJobsComplete while a job is still counted
C11_Witness ==
  /\ last_event.name = "AllJobsComplete"
  /\ ~timer_active
  /\ queued_ > 0

\* C14: a Start with an empty file list makes no call to the engine and
\* leaves the working state, the tallies, the progress bar and the stored
\* last_output_format as they were
C14_EmptyStartIsNoOp ==
  [][last_event' = Event("Start", 0) =>
       /\ engine_calls' = <<>>
       /\ UNCHANGED <<widgets, counters, progress_value, progress_max,
                      last_output_format, engine, submitted, run_open>>]_vars

\* an empty Start after a run that tallied a job: the list was emptied in
\* between and the tallies are still those of the run
C14_Witness ==
  /\ last_event = Event("Start", 0)
  /\ files = <<>>
  /\ finished_success_ + finished_failed_ > 0
  /\ engine_calls = <<>>

\* C12: with an engine that does not withhold AllJobsComplete, every Start
\* that put the dialog in the working state is followed by a state where
\* the dialog is not working: start button visible, inputs enabled, timer
\* stopped
C12_WorkingEnds ==
  (last_event.name = "Start" /\ last_event.arg > 0 /\ Working)
    ~> (NotWorking /\ ~timer_active)

\* a run ended by the engine's notification alone, jobs still counted
C12_Witness ==
  /\ last_event.name = "AllJobsComplete"
  /\ NotWorking
  /\ ~timer_active
  /\ queued_ = submitted
  /\ submitted > 0

\* C13: a LogLine notification appends one entry, the date, ": " and the
\* engine's message text as it came, after the entries already there; Start,
\* Cancel, JobComplete and AllJobsComplete leave the log as it is
C13_LogForwarding ==
  [][/\ last_event'.name = "LogLine" =>
          \E date \in Dates :
            log' = log \o << date \o <<": ">> \o MessageText(last_event'.arg) >>
     /\ last_event'.name \in {"Start", "Cancel", "JobComplete",
                              "AllJobsComplete"} => log' = log]_vars

\* the message that holds a place marker has been logged after another one
C13_Witness ==
  /\ last_event = Event("LogLine", 2)
  /\ Len(log) = 2
  /\ log[1][3] = "Transcoding"
  /\ log[2][4] = "%1"

\* C15: once a non-empty Start has run, the progress bar's value is at most
\* its maximum, and it is the maximum only when queued_ is 0
C15_ProgressBarBound ==
  submitted > 0 =>
    /\ progress_value <= progress_max
    /\ progress_value = progress_max => queued_ = 0

\* C16: when an AllJobsComplete notification has taken the dialog out of the
\* working state, queued_ is 0
C16_AllCompleteLeavesNoneQueued ==
  (last_event.name = "AllJobsComplete" /\ NotWorking) => queued_ = 0

\* C17: an AddDestination that returns a folder already in the box leaves the
\* entries and their order as they were and makes that entry the current
\* one, whatever the box holds; a cancelled folder dialog changes nothing
C17_ExistingFolderChangesNothing ==
  [][last_event'.name = "AddDestination" =>
       /\ last_event'.arg = 0 => UNCHANGED <<destination, dest_index>>
       /\ (last_event'.arg # 0 /\ last_event'.arg \in Range(destination)) =>
            /\ destination' = destination
            /\ destination'[dest_index' + 1] = last_event'.arg]_vars

\* C18: an entry AddDestination removes to make room is the folder added
\* earliest among those in the box, which sat at index 1; the entry at
\* index 0, there before any folder was added, is never removed
C18_EvictsEarliestAdded ==
  [][last_event'.name = "AddDestination" =>
       /\ destination'[1] = destination[1]
       /\ destination[1] \notin Range(last_removed')
       /\ last_removed' # <<>> =>
            /\ last_removed' = <<Head(dest_added)>>
            /\ last_removed' = <<destination[2]>>]_vars

\* a full box has lost its earliest folder to a new one
C18_Witness ==
  /\ last_event.name = "AddDestination"
  /\ last_removed = <<1>>
  /\ Len(destination) = kMaxDestinationItems
  /\ destination[1] = 0
  /\ destination[kMaxDestinationItems] = last_event.arg
  /\ last_event.arg > kMaxDestinationItems - 1

\* C19: Add and Import put rows after the rows already in the file list,
\* which stay as they are; Remove deletes the selected rows and no others;
\* Start, Cancel, JobComplete, AllJobsComplete and a timer tick leave the
\* list as it is; a Start after an earlier run submits every file in it
C19_FileListFrame ==
  [][/\ last_event'.name \in {"Start", "Cancel", "JobComplete",
                              "AllJobsComplete", "timerEvent"} =>
          files' = files
     /\ last_event'.name \in {"Add", "Import"} =>
          /\ Len(files') >= Len(files)
          /\ \A i \in 1..Len(files) : files'[i] = files[i]
     /\ last_event'.name = "Remove" =>
          LET kept == {i \in 1..Len(files) :
                         (last_event'.arg \div 2 ^ (i - 1)) % 2 = 0}
          IN /\ Len(files') = Cardinality(kept)
             /\ \A i \in kept :
                  files'[Cardinality({k \in kept : k <= i})] = files[i]
     /\ (last_event'.name = "Start" /\ submitted > 0 /\ files # <<>>) =>
          /\ Len(engine_calls') = Len(files) + 1
          /\ \A i \in 1..Len(files) :
               /\ engine_calls'[i].op = "AddJob"
               /\ engine_calls'[i].input = files[i]]_vars

\* a list holding the same file twice is submitted whole again while a job
\* of the cancelled run before it is still with the engine
C19_Witness ==
  /\ last_event = Event("Start", 2)
  /\ files = <<1, 1>>
  /\ jobs_stale = 1
  /\ jobs_current = 2
  /\ Len(engine_calls) = 3

====
